---------------------------- MODULE Spec2Model ----------------------------
(***************************************************************************)
(* Model of src/server.js: the "order paid" webhook of the cruise map      *)
(* generator.  The handler extracts the first line item's custom fields,   *)
(* decides between the customer's override ports and a scrape of the       *)
(* sailing, records the outcome in the in-memory log recentWebhookHits and *)
(* answers the caller.                                                     *)
(*                                                                         *)
(* A JavaScript string is a sequence of one-character strings, so that     *)
(* trim, toLowerCase, includes, split, parseInt, padStart and the regular  *)
(* expressions are computed character by character.  null/undefined is     *)
(* the one-element sequence Null, which no string equals.  NaN is the      *)
(* integer NaN (-1); every number parseInt yields here is >= 0.            *)
(***************************************************************************)
EXTENDS Integers, Sequences, FiniteSets, TLC

VARIABLES
    env,                \* process.env: [token, taskId]
    recentWebhookHits,  \* the in-memory log, most recent entry first
    now,                \* the clock read by new Date(): it ticks at every entry
    pc,                 \* pc[d]: where delivery d's handler is suspended
    req,                \* req[d]: the request body of delivery d
    loc,                \* loc[d]: the handler's local variables
    calls,              \* calls[d]: the outbound fetches of delivery d, in order
    sent,               \* sent[d]: the responses written for delivery d, in order
    logged,             \* logged[d]: the at stamps of the entries d has appended
    arg,                \* the argument of the pure function under check
    res,                \* its result
    phase               \* "in" before the function is applied, then "out", "again"

vars == <<env, recentWebhookHits, now, pc, req, loc, calls, sent, logged,
          arg, res, phase>>

handlerVars == <<env, recentWebhookHits, now, pc, req, loc, calls, sent, logged>>
pureVars == <<arg, res, phase>>

-----------------------------------------------------------------------------
(* Bounds of the model *)

MaxDeliveries == 2      \* deliveries of the pipeline specification
MaxLogDeliveries == 22  \* deliveries of the log specification
LogScrapeEvery == 10    \* of which every so many-th takes the scrape path
MaxItems == 2           \* records of a scraped dataset (matcher specification)
MaxFields == 3          \* fields of a field list (getActualPorts)
MaxStops == 3           \* keys of a sailing record (extractPortsFromStops)
MaxPartLen == 2         \* digits of a generated month or day
MaxPad == 1             \* whitespace around a generated date

-----------------------------------------------------------------------------
(* Strings *)

Null == <<"null">>

Whitespace == {" ", "\t"}

DigitChars == <<"0", "1", "2", "3", "4", "5", "6", "7", "8", "9">>

Digits == {DigitChars[i] : i \in 1..10}

DigitVal(c) == (CHOOSE i \in 1..10 : DigitChars[i] = c) - 1

UpperChars == <<"A", "B", "C", "D", "E", "F", "G", "H", "I", "J", "K", "L", "M",
                "N", "O", "P", "Q", "R", "S", "T", "U", "V", "W", "X", "Y", "Z">>

LowerChars == <<"a", "b", "c", "d", "e", "f", "g", "h", "i", "j", "k", "l", "m",
                "n", "o", "p", "q", "r", "s", "t", "u", "v", "w", "x", "y", "z">>

LowerChar(c) ==
    IF \E i \in 1..26 : UpperChars[i] = c
    THEN LowerChars[CHOOSE i \in 1..26 : UpperChars[i] = c]
    ELSE c

\* String.prototype.toLowerCase
ToLowerCase(s) == [i \in 1..Len(s) |-> LowerChar(s[i])]

RECURSIVE TrimStart(_)
TrimStart(s) ==
    IF s # <<>> /\ Head(s) \in Whitespace THEN TrimStart(Tail(s)) ELSE s

RECURSIVE TrimEnd(_)
TrimEnd(s) ==
    IF s # <<>> /\ s[Len(s)] \in Whitespace
    THEN TrimEnd(SubSeq(s, 1, Len(s) - 1))
    ELSE s

\* String.prototype.trim
Trim(s) == TrimEnd(TrimStart(s))

\* String.prototype.startsWith / endsWith / includes
StartsWith(s, p) == Len(p) <= Len(s) /\ SubSeq(s, 1, Len(p)) = p

EndsWith(s, p) == Len(p) <= Len(s) /\ SubSeq(s, Len(s) - Len(p) + 1, Len(s)) = p

Includes(s, p) ==
    \E i \in 1..(Len(s) - Len(p) + 1) : SubSeq(s, i, i + Len(p) - 1) = p

\* String.prototype.split on a one-character separator
RECURSIVE Split(_, _)
Split(s, c) ==
    IF \E i \in 1..Len(s) : s[i] = c
    THEN LET i == CHOOSE k \in 1..Len(s) :
                      s[k] = c /\ \A j \in 1..(k - 1) : s[j] # c
         IN  <<SubSeq(s, 1, i - 1)>> \o Split(SubSeq(s, i + 1, Len(s)), c)
    ELSE <<s>>

\* Array.prototype.join on a list of strings
RECURSIVE Join(_, _)
Join(list, sep) ==
    IF list = <<>> THEN <<>>
    ELSE IF Len(list) = 1 THEN list[1]
    ELSE list[1] \o sep \o Join(Tail(list), sep)

AllDigits(s) == \A i \in 1..Len(s) : s[i] \in Digits

\* The longest run of digits that starts at position i of s
RECURSIVE DigitRunAt(_, _)
DigitRunAt(s, i) ==
    IF i <= Len(s) /\ s[i] \in Digits THEN <<s[i]>> \o DigitRunAt(s, i + 1) ELSE <<>>

RECURSIVE DigitsValue(_)
DigitsValue(ds) ==
    IF ds = <<>> THEN 0
    ELSE DigitsValue(SubSeq(ds, 1, Len(ds) - 1)) * 10 + DigitVal(ds[Len(ds)])

NaN == -1

\* parseInt(s, 10) of a string without a sign: leading whitespace is skipped,
\* the leading digits are read, and NaN is returned when there are none
ParseInt(s) ==
    LET run == DigitRunAt(TrimStart(s), 1)
    IN  IF run = <<>> THEN NaN ELSE DigitsValue(run)

RECURSIVE IntToStr(_)
IntToStr(n) ==
    IF n < 10 THEN <<DigitChars[n + 1]>>
    ELSE IntToStr(n \div 10) \o <<DigitChars[(n % 10) + 1]>>

\* String(n) of a number
NumToStr(n) == IF n = NaN THEN <<"N", "a", "N">> ELSE IntToStr(n)

\* s.padStart(2, "0")
PadStart2(s) ==
    IF Len(s) >= 2 THEN s
    ELSE IF Len(s) = 1 THEN <<"0">> \o s
    ELSE <<"0", "0">>

\* JavaScript truthiness of a string-or-null and of a number
Truthy(v) == v # Null /\ v # <<>>

TruthyNum(n) == n # NaN /\ n # 0

-----------------------------------------------------------------------------
(* DateNormalizer *)

\* /^\d{4}-\d{2}-\d{2}$/
IsIsoDate(s) ==
    /\ Len(s) = 10
    /\ \A i \in {1, 2, 3, 4, 6, 7, 9, 10} : s[i] \in Digits
    /\ s[5] = "-"
    /\ s[8] = "-"

\* /^(\d{1,2})\/(\d{1,2})\/(\d{4})$/: the three groups, or <<>> without a match
MatchMdy(s) ==
    LET parts == Split(s, "/")
    IN  IF /\ Len(parts) = 3
           /\ \A i \in 1..3 : AllDigits(parts[i])
           /\ Len(parts[1]) \in 1..2
           /\ Len(parts[2]) \in 1..2
           /\ Len(parts[3]) = 4
        THEN parts
        ELSE <<>>

\* A defect of the kind the idempotence claim guards against: the M/D/YYYY branch
\* re-emits a day/month/year string with slashes, which matches the branch again
normalizeDateDayFirst(value) ==
    IF ~Truthy(value) THEN value
    ELSE LET s == Trim(value)
             m == MatchMdy(s)
         IN  IF IsIsoDate(s) THEN s
             ELSE IF m # <<>>
             THEN PadStart2(NumToStr(ParseInt(m[2]))) \o <<"/">>
                    \o PadStart2(NumToStr(ParseInt(m[1]))) \o <<"/">> \o m[3]
             ELSE s

normalizeDateToYyyyMmDd(value) ==
    IF ~Truthy(value) THEN value
    ELSE LET s == Trim(value)
             m == MatchMdy(s)
         IN  IF IsIsoDate(s) THEN s
             ELSE IF m # <<>>
             THEN LET mm == PadStart2(NumToStr(ParseInt(m[1])))
                      dd == PadStart2(NumToStr(ParseInt(m[2])))
                      yyyy == m[3]
                  IN  yyyy \o <<"-">> \o mm \o <<"-">> \o dd
             ELSE s

Months ==
    << <<"J", "a", "n">>, <<"F", "e", "b">>, <<"M", "a", "r">>, <<"A", "p", "r">>,
       <<"M", "a", "y">>, <<"J", "u", "n">>, <<"J", "u", "l">>, <<"A", "u", "g">>,
       <<"S", "e", "p">>, <<"O", "c", "t">>, <<"N", "o", "v">>, <<"D", "e", "c">> >>

toCruiseDateString(yyyyMmDd) ==
    IF ~Truthy(yyyyMmDd) THEN <<>>
    ELSE LET parts == Split(yyyyMmDd, "-")
         IN  IF Len(parts) # 3 THEN <<>>
             ELSE LET y == ParseInt(parts[1])
                      m == ParseInt(parts[2])
                      d == ParseInt(parts[3])
                      idx == (IF TruthyNum(m) THEN m ELSE 1) - 1
                      mon == IF idx \in 0..11 THEN Months[idx + 1] ELSE Months[1]
                      dd == PadStart2(NumToStr(IF TruthyNum(d) THEN d ELSE 1))
                  IN  NumToStr(y) \o <<" ">> \o mon \o <<" ">> \o dd

-----------------------------------------------------------------------------
(* PropertyExtractor and FieldResolver *)

OrEmpty(v) == IF Truthy(v) THEN v ELSE <<>>

\* The name/value pairs kept from one raw list.  nameFirst says which of the
\* entry's two name keys is read first: p?.name ?? p?.key, or p?.key ?? p?.name.
RECURSIVE KeptProperties(_, _)
KeptProperties(raw, nameFirst) ==
    IF raw = <<>> THEN <<>>
    ELSE LET p == Head(raw)
             name == IF nameFirst
                     THEN (IF p.name # Null THEN p.name ELSE p.key)
                     ELSE (IF p.key # Null THEN p.key ELSE p.name)
             value == p.value
             rest == KeptProperties(Tail(raw), nameFirst)
         IN  IF Truthy(name) /\ value # Null /\ Trim(value) # <<>>
             THEN <<[name |-> name, value |-> value]>> \o rest
             ELSE rest

\* A JSON array, or a value that is not an array
Arr(elems) == [isArray |-> TRUE, elems |-> elems]
NotArray == [isArray |-> FALSE, elems |-> <<>>]

\* lineItems[0] || {}
NoLineItem == [properties |-> NotArray, customAttributes |-> NotArray]

extractLineItemProperties(lineItem) ==
    (IF lineItem.properties.isArray
     THEN KeptProperties(lineItem.properties.elems, TRUE) ELSE <<>>)
    \o
    (IF lineItem.customAttributes.isArray
     THEN KeptProperties(lineItem.customAttributes.elems, FALSE) ELSE <<>>)

NameMatches(f, labelContains) ==
    Includes(ToLowerCase(OrEmpty(f.name)), ToLowerCase(labelContains))

getField(fields, labelContains) ==
    IF \E i \in 1..Len(fields) : NameMatches(fields[i], labelContains)
    THEN fields[CHOOSE i \in 1..Len(fields) :
                    /\ NameMatches(fields[i], labelContains)
                    /\ \A j \in 1..(i - 1) : ~NameMatches(fields[j], labelContains)].value
    ELSE Null

\* Array.prototype.sort((a, b) => a.n - b.n) on numbers: ascending and stable
RECURSIVE StableSortByN(_)
StableSortByN(s) ==
    IF s = <<>> THEN <<>>
    ELSE LET front == StableSortByN(SubSeq(s, 1, Len(s) - 1))
             x == s[Len(s)]
             k == Cardinality({i \in 1..Len(front) : front[i].n <= x.n})
         IN  SubSeq(front, 1, k) \o <<x>> \o SubSeq(front, k + 1, Len(front))

\* String(name).match(/(\d+)/): the first run of digits, or <<>>
FirstDigitRun(name) ==
    IF \E i \in 1..Len(name) : name[i] \in Digits
    THEN DigitRunAt(name, CHOOSE i \in 1..Len(name) :
                              /\ name[i] \in Digits
                              /\ \A j \in 1..(i - 1) : name[j] \notin Digits)
    ELSE <<>>

NoDigitsOrdinal == 9999

PortOrdinal(name) ==
    IF FirstDigitRun(name) = <<>> THEN NoDigitsOrdinal
    ELSE DigitsValue(FirstDigitRun(name))

S_actual_port == <<"a", "c", "t", "u", "a", "l", " ", "p", "o", "r", "t">>

\* The entries getActualPorts sorts: {n, value} of the matching fields whose
\* trimmed value is not empty, in the order of the field list
ActualPortEntries(fields) ==
    LET matching == SelectSeq(fields, LAMBDA f : NameMatches(f, S_actual_port))
        mapped == [i \in 1..Len(matching) |->
                     [n |-> PortOrdinal(matching[i].name),
                      value |-> Trim(OrEmpty(matching[i].value))]]
    IN  SelectSeq(mapped, LAMBDA x : Len(x.value) > 0)

\* A defect: the sort is left out, the ports stay in the order of the field list
getActualPortsUnsorted(fields) ==
    [i \in 1..Len(ActualPortEntries(fields)) |-> ActualPortEntries(fields)[i].value]

getActualPorts(fields) ==
    LET sorted == StableSortByN(ActualPortEntries(fields))
    IN  [i \in 1..Len(sorted) |-> sorted[i].value]

-----------------------------------------------------------------------------
(* Sailing records, StopListExtractor and SailingMatcher *)

\* A sailing record is the sequence of its [k, v] pairs in insertion order
ObjectKeys(obj) == [i \in 1..Len(obj) |-> obj[i].k]

Get(obj, key) ==
    IF \E i \in 1..Len(obj) : obj[i].k = key
    THEN obj[CHOOSE i \in 1..Len(obj) : obj[i].k = key].v
    ELSE Null

S_stop_ == <<"s", "t", "o", "p", "_">>
S__text == <<"_", "t", "e", "x", "t">>
S_departing_from_ ==
    <<"d", "e", "p", "a", "r", "t", "i", "n", "g", " ", "f", "r", "o", "m", " ">>

IsStopKey(k) == StartsWith(k, S_stop_) /\ EndsWith(k, S__text)

\* parseInt(k.split("_")[1], 10)
StopOrdinal(k) == ParseInt(Split(k, "_")[2])

PermutationsOf(s) ==
    LET n == Len(s)
        bij == {p \in [1..n -> 1..n] : \A i, j \in 1..n : p[i] = p[j] => i = j}
    IN  {[i \in 1..n |-> s[p[i]]] : p \in bij}

\* keys.sort((a, b) => na - nb).  With every ordinal a number the sort is
\* ascending and stable.  A NaN ordinal makes the comparator return NaN for
\* some pairs and a number for others: the comparator is then not consistent
\* and the order of the result is implementation-defined, any permutation.
SortedStopKeys(obj) ==
    LET keys == SelectSeq(ObjectKeys(obj), IsStopKey)
        tagged == [i \in 1..Len(keys) |-> [n |-> StopOrdinal(keys[i]), value |-> keys[i]]]
        sorted == StableSortByN(tagged)
    IN  IF \E i \in 1..Len(keys) : StopOrdinal(keys[i]) = NaN
        THEN PermutationsOf(keys)
        ELSE {[i \in 1..Len(sorted) |-> sorted[i].value]}

\* text.replace(/^Departing from\s+/i, "")
StripDepartingFrom(text) ==
    LET word == SubSeq(S_departing_from_, 1, 14)
        tail == SubSeq(text, 15, Len(text))
    IN  IF /\ StartsWith(ToLowerCase(text), word)
           /\ tail # <<>>
           /\ Head(tail) \in Whitespace
        THEN TrimStart(tail)
        ELSE text

RECURSIVE StopTexts(_, _)
StopTexts(obj, keys) ==
    IF keys = <<>> THEN <<>>
    ELSE LET text == Trim(OrEmpty(Get(obj, Head(keys))))
             rest == StopTexts(obj, Tail(keys))
         IN  IF text = <<>> THEN rest
             ELSE IF StartsWith(ToLowerCase(text), S_departing_from_)
             THEN <<Trim(StripDepartingFrom(text))>> \o rest
             ELSE <<text>> \o rest

\* The port lists extractPortsFromStops can return for obj: one per order the
\* sort can leave the keys in
extractPortsFromStops(obj) == {StopTexts(obj, keys) : keys \in SortedStopKeys(obj)}

S_ship_name == <<"s", "h", "i", "p", "_", "n", "a", "m", "e">>
S_cruise_date == <<"c", "r", "u", "i", "s", "e", "_", "d", "a", "t", "e">>
S_id == <<"i", "d">>
S_cruise_title == <<"c", "r", "u", "i", "s", "e", "_", "t", "i", "t", "l", "e">>

IsCandidate(it, shipName, sailDate) ==
    LET targetCruiseDate == toCruiseDateString(sailDate)
        targetShip == ToLowerCase(Trim(OrEmpty(shipName)))
        ship == ToLowerCase(Trim(OrEmpty(Get(it, S_ship_name))))
        cd == Trim(OrEmpty(Get(it, S_cruise_date)))
    IN  ship = targetShip /\ cd = targetCruiseDate

\* A defect: without a match the last record of the dataset is used
ChosenRecordLast(items, shipName, sailDate) ==
    LET candidates == SelectSeq(items, LAMBDA it : IsCandidate(it, shipName, sailDate))
    IN  IF candidates # <<>> THEN candidates[1] ELSE items[Len(items)]

\* const chosen = candidates[0] || items[0]
ChosenRecord(items, shipName, sailDate) ==
    LET candidates == SelectSeq(items, LAMBDA it : IsCandidate(it, shipName, sailDate))
    IN  IF candidates # <<>> THEN candidates[1] ELSE items[1]

OrNull(v) == IF Truthy(v) THEN v ELSE Null

ChosenMeta(chosen) ==
    [id |-> OrNull(Get(chosen, S_id)),
     cruise_date |-> OrNull(Get(chosen, S_cruise_date)),
     cruise_title |-> OrNull(Get(chosen, S_cruise_title))]

-----------------------------------------------------------------------------
(* The handler's state before any delivery, for n deliveries to come *)

NoLocals == [fields |-> <<>>]

NoBody == [id |-> 0, line_items |-> [isArray |-> FALSE, elems |-> <<>>]]

HandlerInit(n, envs) ==
    /\ env \in envs
    /\ recentWebhookHits = <<>>
    /\ now = 0
    /\ pc = [d \in 1..n |-> "pending"]
    /\ req = [d \in 1..n |-> NoBody]
    /\ loc = [d \in 1..n |-> NoLocals]
    /\ calls = [d \in 1..n |-> <<>>]
    /\ sent = [d \in 1..n |-> <<>>]
    /\ logged = [d \in 1..n |-> <<>>]

Configured == [token |-> <<"t">>, taskId |-> <<"k">>]

HandlerAbsent == HandlerInit(0, {Configured})

SeqsUpTo(S, n) == UNION {[1..k -> S] : k \in 0..n}

-----------------------------------------------------------------------------
(* normalizeDateToYyyyMmDd applied once and again to generated strings *)

DateDigits == {"0", "3"}

DateParts ==
    SeqsUpTo(DateDigits, MaxPartLen)
      \cup {<<"2", "0", "2">>, <<"2", "0", "2", "5">>, <<"2", "0", "2", "5", "1">>, <<"x">>}

DatePads == SeqsUpTo({" "}, MaxPad)

DateInputs ==
    {p1 \o a \o <<s>> \o b \o <<s>> \o c \o p2 :
        p1 \in DatePads, p2 \in DatePads, s \in {"/", "-"},
        a \in DateParts, b \in DateParts, c \in DateParts}
      \cup {p1 \o a \o p2 : p1 \in DatePads, p2 \in DatePads, a \in DateParts}

InitDate ==
    /\ HandlerAbsent
    /\ arg \in DateInputs
    /\ res = <<>>
    /\ phase = "in"

ApplyToIso ==
    /\ phase = "in"
    /\ res' = <<normalizeDateToYyyyMmDd(arg)>>
    /\ phase' = "out"
    /\ UNCHANGED <<arg, handlerVars>>

ApplyToIsoAgain ==
    /\ phase = "out"
    /\ res' = Append(res, normalizeDateToYyyyMmDd(res[1]))
    /\ phase' = "again"
    /\ UNCHANGED <<arg, handlerVars>>

NextDate == ApplyToIso \/ ApplyToIsoAgain

SpecDate == InitDate /\ [][NextDate]_vars

-----------------------------------------------------------------------------
(* getActualPorts applied to generated field lists *)

F_Port2 == [name |-> <<"A", "c", "t", "u", "a", "l", " ", "P", "o", "r", "t", " ", "2">>, value |-> <<"C", "o", "z", "u", "m", "e", "l">>]
F_Port1 == [name |-> <<"A", "c", "t", "u", "a", "l", " ", "P", "o", "r", "t", " ", "1">>, value |-> <<"M", "i", "a", "m", "i">>]
F_port1 == [name |-> <<"m", "y", " ", "a", "c", "t", "u", "a", "l", " ", "p", "o", "r", "t", " ", "1">>, value |-> <<" ", "N", "a", "s", "s", "a", "u", " ">>]
F_PortNoDigits == [name |-> <<"A", "c", "t", "u", "a", "l", " ", "P", "o", "r", "t">>, value |-> <<"R", "o", "a", "t", "a", "n">>]
F_Port10 == [name |-> <<"A", "C", "T", "U", "A", "L", " ", "P", "O", "R", "T", " ", "1", "0">>, value |-> <<"B", "i", "m", "i", "n", "i">>]
F_Port10000 == [name |-> <<"A", "c", "t", "u", "a", "l", " ", "P", "o", "r", "t", " ", "1", "0", "0", "0", "0">>, value |-> <<"B", "e", "l", "i", "z", "e">>]
F_Port3Blank == [name |-> <<"A", "c", "t", "u", "a", "l", " ", "P", "o", "r", "t", " ", "3">>, value |-> <<" ", " ">>]
F_Ship == [name |-> <<"S", "h", "i", "p", " ", "7">>, value |-> <<"I", "c", "o", "n">>]

FieldPool ==
    {F_Port2, F_Port1, F_port1, F_PortNoDigits, F_Port10, F_Port10000,
     F_Port3Blank, F_Ship}

InitPorts ==
    /\ HandlerAbsent
    /\ arg \in SeqsUpTo(FieldPool, MaxFields)
    /\ res = <<>>
    /\ phase = "in"

ApplyGetActualPorts ==
    /\ phase = "in"
    /\ res' = getActualPorts(arg)
    /\ phase' = "out"
    /\ UNCHANGED <<arg, handlerVars>>

NextPorts == ApplyGetActualPorts

SpecPorts == InitPorts /\ [][NextPorts]_vars

-----------------------------------------------------------------------------
(* extractPortsFromStops applied to generated sailing records *)

K_stop_1 == <<"s", "t", "o", "p", "_", "1", "_", "t", "e", "x", "t">>
K_stop_2 == <<"s", "t", "o", "p", "_", "2", "_", "t", "e", "x", "t">>
K_stop_3 == <<"s", "t", "o", "p", "_", "3", "_", "t", "e", "x", "t">>
K_stop_10 == <<"s", "t", "o", "p", "_", "1", "0", "_", "t", "e", "x", "t">>
K_stop_x == <<"s", "t", "o", "p", "_", "x", "_", "t", "e", "x", "t">>

V_Miami == <<"M", "i", "a", "m", "i">>
V_Cozumel == <<"C", "o", "z", "u", "m", "e", "l">>
V_Nassau == <<"N", "a", "s", "s", "a", "u">>
V_DepartingMiami == <<"D", "e", "p", "a", "r", "t", "i", "n", "g", " ", "f", "r", "o", "m", " ", "M", "i", "a", "m", "i">>
V_departingNassau == <<" ", "d", "e", "p", "a", "r", "t", "i", "n", "g", " ", "F", "R", "O", "M", " ", " ", "N", "a", "s", "s", "a", "u", " ">>
V_Icon == <<"I", "c", "o", "n">>

StopPool ==
    {[k |-> K_stop_1, v |-> V_DepartingMiami],
     [k |-> K_stop_2, v |-> V_Cozumel],
     [k |-> K_stop_3, v |-> <<>>],
     [k |-> K_stop_10, v |-> V_departingNassau],
     [k |-> K_stop_x, v |-> V_Miami],
     [k |-> S_ship_name, v |-> V_Icon]}

DistinctKeys(obj) ==
    \A i, j \in 1..Len(obj) : obj[i].k = obj[j].k => i = j

InitStops ==
    /\ HandlerAbsent
    /\ arg \in {obj \in SeqsUpTo(StopPool, MaxStops) : DistinctKeys(obj)}
    /\ res = <<>>
    /\ phase = "in"

ApplyExtractPorts ==
    /\ phase = "in"
    /\ \E ports \in extractPortsFromStops(arg) : res' = ports
    /\ phase' = "out"
    /\ UNCHANGED <<arg, handlerVars>>

NextStops == ApplyExtractPorts

SpecStops == InitStops /\ [][NextStops]_vars

-----------------------------------------------------------------------------
(* The webhook handler, app.post("/webhooks/order-paid"), and                *)
(* runApifyTaskAndGetPorts.  A handler runs from one await to the next in    *)
(* one step; handlers of different deliveries interleave at the awaits.      *)

S_cruise_line == <<"c", "r", "u", "i", "s", "e", " ", "l", "i", "n", "e">>
S_ship == <<"s", "h", "i", "p">>
S_ships == <<"s", "h", "i", "p", "s">>
S_sail_date == <<"s", "a", "i", "l", " ", "d", "a", "t", "e">>
S_ports_of_call_changed ==
    <<"p", "o", "r", "t", "s", " ", "o", "f", " ", "c", "a", "l", "l", " ", "c", "h", "a", "n", "g", "e", "d">>
S_ports_changed == <<"p", "o", "r", "t", "s", " ", "c", "h", "a", "n", "g", "e", "d">>
S_my_ports_of_call_changed ==
    <<"m", "y", " ", "p", "o", "r", "t", "s", " ", "o", "f", " ", "c", "a", "l", "l", " ", "c", "h", "a", "n", "g", "e", "d">>

S_no == {<<"n", "o">>, <<"f", "a", "l", "s", "e">>, <<"0">>}

\* A defect: the flag is read from the field's value, so that "No", "false"
\* and "0" leave it unset
PortsChangedByValue(fields) ==
    \E label \in {S_ports_of_call_changed, S_ports_changed, S_my_ports_of_call_changed} :
        /\ Truthy(getField(fields, label))
        /\ ToLowerCase(Trim(getField(fields, label))) \notin S_no

PortsChanged(fields) ==
    \/ Truthy(getField(fields, S_ports_of_call_changed))
    \/ Truthy(getField(fields, S_ports_changed))
    \/ Truthy(getField(fields, S_my_ports_of_call_changed))

\* A defect: one override port is enough
UseOverrideOnePort(portsChanged, overridePorts) ==
    portsChanged /\ Len(overridePorts) >= 1

\* if (portsChanged && overridePorts.length >= 2)
UseOverride(portsChanged, overridePorts) ==
    portsChanged /\ Len(overridePorts) >= 2

NoError == [text |-> "", status |-> 0, detail |-> <<>>]

Err(text, status, detail) == [text |-> text, status |-> status, detail |-> detail]

NoResponse ==
    [rejected |-> FALSE, ok |-> FALSE, status |-> 0, text |-> <<>>,
     validJson |-> FALSE, datasetId |-> Null, items |-> NotArray]

\* The handler's locals once the request is read (lines 257-282)
Locals(body) ==
    LET lineItems == IF body.line_items.isArray THEN body.line_items.elems ELSE <<>>
        firstItem == IF lineItems # <<>> THEN lineItems[1] ELSE NoLineItem
        fields == extractLineItemProperties(firstItem)
        ship == getField(fields, S_ship)
    IN  [fields |-> fields,
         cruiseLine |-> getField(fields, S_cruise_line),
         shipName |-> IF Truthy(ship) THEN ship ELSE getField(fields, S_ships),
         sailDate |-> normalizeDateToYyyyMmDd(getField(fields, S_sail_date)),
         portsChanged |-> PortsChanged(fields),
         overridePorts |-> getActualPorts(fields),
         runResp |-> NoResponse,
         datasetId |-> Null,
         itemsResp |-> NoResponse,
         chosen |-> <<>>,
         result |-> "none",
         raised |-> NoError]

\* What a run of the handler between two awaits ends in
Await(p, call) == [t |-> "await", pc |-> p, call |-> call]
Return(source, ports, meta) ==
    [t |-> "return", source |-> source, ports |-> ports, meta |-> meta]
Throw(error) == [t |-> "throw", error |-> error]

RunCall(l) ==
    [op |-> "run", taskId |-> env.taskId,
     input |-> [cruise_line |-> OrEmpty(l.cruiseLine),
                start_date |-> l.sailDate,
                end_date |-> l.sailDate,
                ship_name |-> l.shipName,
                max_number_of_pages |-> 1]]

ItemsCall(datasetId) == [op |-> "items", datasetId |-> datasetId]

\* Lines 284-297 and 165-194: the decision, the credentials, the submission
StartStep(l) ==
    IF UseOverride(l.portsChanged, l.overridePorts)
    THEN Return("customer_override", l.overridePorts, <<>>)
    ELSE IF ~Truthy(env.token) \/ ~Truthy(env.taskId)
    THEN Throw(Err("Missing APIFY_TOKEN or APIFY_TASK_ID in Render environment variables.",
                   0, <<>>))
    ELSE Await("awaitRun", <<RunCall(l)>>)

\* Line 190: await fetch(runUrl) settles
RunSettledStep(l) ==
    IF l.runResp.rejected
    THEN Throw(Err("fetch failed", 0, <<>>))
    ELSE Await("readRun", <<>>)

\* A defect: a failed submission is submitted again
RunBodyStepRetry(l) ==
    IF ~l.runResp.ok
    THEN Await("awaitRun", <<RunCall(l)>>)
    ELSE IF ~l.runResp.validJson
    THEN Throw(Err("Unexpected token in JSON", 0, <<>>))
    ELSE IF ~Truthy(l.runResp.datasetId)
    THEN Throw(Err("Apify run did not return defaultDatasetId.", 0, <<>>))
    ELSE Await("awaitItems", <<ItemsCall(l.runResp.datasetId)>>)

\* Lines 196-210: the submission's body is read, the dataset is asked for
RunBodyStep(l) ==
    IF ~l.runResp.ok
    THEN Throw(Err("Apify run failed:", l.runResp.status, l.runResp.text))
    ELSE IF ~l.runResp.validJson
    THEN Throw(Err("Unexpected token in JSON", 0, <<>>))
    ELSE IF ~Truthy(l.runResp.datasetId)
    THEN Throw(Err("Apify run did not return defaultDatasetId.", 0, <<>>))
    ELSE Await("awaitItems", <<ItemsCall(l.runResp.datasetId)>>)

\* Line 210: await fetch(itemsUrl) settles
ItemsSettledStep(l) ==
    IF l.itemsResp.rejected
    THEN Throw(Err("fetch failed", 0, <<>>))
    ELSE Await("readItems", <<>>)

\* Lines 212-250 and 294-296: the dataset is read, the sailing chosen, its
\* ports extracted.  The set holds one result per order the sort of the
\* stop keys can produce.
ItemsBodySteps(l) ==
    IF ~l.itemsResp.ok
    THEN {Throw(Err("Apify dataset fetch failed:", l.itemsResp.status, l.itemsResp.text))}
    ELSE IF ~l.itemsResp.validJson
    THEN {Throw(Err("Unexpected token in JSON", 0, <<>>))}
    ELSE IF ~l.itemsResp.items.isArray \/ l.itemsResp.items.elems = <<>>
    THEN {Throw(Err("Apify returned no items.", 0, <<>>))}
    ELSE LET chosen == ChosenRecord(l.itemsResp.items.elems, l.shipName, l.sailDate)
         IN  {IF ports = <<>>
              THEN Throw(Err("Could not extract ports. Chosen keys:", 0,
                             Join(ObjectKeys(chosen), <<",", " ">>)))
              ELSE Return("apify_scrape", ports, <<ChosenMeta(chosen)>>)
                : ports \in extractPortsFromStops(chosen)}

Inputs(l) ==
    [cruiseLine |-> l.cruiseLine, shipName |-> l.shipName,
     sailDate |-> l.sailDate, portsChanged |-> l.portsChanged]

\* Lines 299-321 (the request's headers and the order's name, email and
\* financial status are copied through and left out here)
SuccessEntry(body, l, r) ==
    [at |-> now,
     order |-> [id |-> body.id],
     inputs |-> Inputs(l),
     customization_fields |-> l.fields,
     ports |-> [source |-> r.source, list |-> r.ports, chosenMeta |-> r.meta]]

\* A defect: the failure entry keeps the override ports as its port list
FailureEntryWithPorts(l, error) ==
    [at |-> now,
     error |-> error,
     inputs |-> Inputs(l),
     customization_fields |-> l.fields,
     ports |-> [source |-> "customer_override", list |-> l.overridePorts,
                chosenMeta |-> <<>>]]

\* Lines 332-337
FailureEntry(l, error) ==
    [at |-> now,
     error |-> error,
     inputs |-> Inputs(l),
     customization_fields |-> l.fields]

LogCapacity == 20

\* A defect: the newest entry is evicted instead of the oldest
RecordHitDropNewest(hits, entry) ==
    LET grown == <<entry>> \o hits
    IN  IF Len(grown) > LogCapacity THEN Tail(grown) ELSE grown

\* recentWebhookHits.unshift(entry); if (length > 20) recentWebhookHits.pop()
RecordHit(hits, entry) ==
    LET grown == <<entry>> \o hits
    IN  IF Len(grown) > LogCapacity THEN SubSeq(grown, 1, Len(grown) - 1) ELSE grown

\* Line 328
SuccessResponse == [status |-> 200, body |-> "OK"]

\* A defect: the failure is surfaced to the caller
CatchResponse500 == [status |-> 500, body |-> "Error"]

\* Line 341
CatchResponse == [status |-> 200, body |-> "OK"]

\* The effect of a run of delivery d's handler that started with locals l and
\* ended in r: suspended at the next await, or through the rest of the try
\* block (return) or the catch block (throw)
Commit(d, body, l, r) ==
    IF r.t = "await"
    THEN /\ loc' = [loc EXCEPT ![d] = l]
         /\ pc' = [pc EXCEPT ![d] = r.pc]
         /\ calls' = [calls EXCEPT ![d] = @ \o r.call]
         /\ UNCHANGED <<recentWebhookHits, now, sent, logged>>
    ELSE LET entry == IF r.t = "return"
                      THEN SuccessEntry(body, l, r)
                      ELSE FailureEntry(l, r.error)
             response == IF r.t = "return" THEN SuccessResponse ELSE CatchResponse
         IN  /\ loc' = [loc EXCEPT ![d] =
                          [l EXCEPT !.result = IF r.t = "return" THEN "ok" ELSE "error",
                                    !.raised = IF r.t = "return" THEN NoError ELSE r.error]]
             /\ pc' = [pc EXCEPT ![d] = "done"]
             /\ recentWebhookHits' = RecordHit(recentWebhookHits, entry)
             /\ now' = now + 1
             /\ sent' = [sent EXCEPT ![d] = Append(@, response)]
             /\ logged' = [logged EXCEPT ![d] = Append(@, entry.at)]
             /\ UNCHANGED calls

\* Delivery d arrives (deliveries are numbered in the order they arrive) and
\* its handler runs to its first await or to its end
Deliver(d, bodies) ==
    /\ pc[d] = "pending"
    /\ d > 1 => pc[d - 1] # "pending"
    /\ \E body \in bodies :
        /\ req' = [req EXCEPT ![d] = body]
        /\ Commit(d, body, Locals(body), StartStep(Locals(body)))
    /\ UNCHANGED <<env, pureVars>>

RunSettles(d, outcomes) ==
    /\ pc[d] = "awaitRun"
    /\ \E o \in outcomes :
        LET l == [loc[d] EXCEPT !.runResp = o]
        IN  Commit(d, req[d], l, RunSettledStep(l))
    /\ UNCHANGED <<env, req, pureVars>>

RunBodyRead(d) ==
    /\ pc[d] = "readRun"
    /\ LET r == RunBodyStep(loc[d])
           l == IF r.t = "await" /\ r.pc = "awaitItems"
                THEN [loc[d] EXCEPT !.datasetId = loc[d].runResp.datasetId]
                ELSE loc[d]
       IN  Commit(d, req[d], l, r)
    /\ UNCHANGED <<env, req, pureVars>>

ItemsSettle(d, outcomes) ==
    /\ pc[d] = "awaitItems"
    /\ \E o \in outcomes :
        LET l == [loc[d] EXCEPT !.itemsResp = o]
        IN  Commit(d, req[d], l, ItemsSettledStep(l))
    /\ UNCHANGED <<env, req, pureVars>>

ItemsBodyRead(d) ==
    /\ pc[d] = "readItems"
    /\ \E r \in ItemsBodySteps(loc[d]) :
        LET items == loc[d].itemsResp.items
            l == IF loc[d].itemsResp.ok /\ loc[d].itemsResp.validJson
                    /\ items.isArray /\ items.elems # <<>>
                 THEN [loc[d] EXCEPT !.chosen =
                          ChosenRecord(items.elems, loc[d].shipName, loc[d].sailDate)]
                 ELSE loc[d]
        IN  Commit(d, req[d], l, r)
    /\ UNCHANGED <<env, req, pureVars>>

-----------------------------------------------------------------------------
(* The environment: request bodies, credentials, answers of the scrape service *)

\* Flag "No" and two override ports, given out of order
OverrideBody ==
    [id |-> 1001,
     line_items |-> Arr(<<
       [properties |-> Arr(<<
          [name |-> <<"S", "h", "i", "p", " ", "N", "a", "m", "e">>, key |-> Null, value |-> <<" ", "I", "c", "o", "n", " ">>],
          [name |-> <<"S", "a", "i", "l", " ", "D", "a", "t", "e">>, key |-> Null, value |-> <<"1", "2", "/", "0", "6", "/", "2", "0", "2", "5">>],
          [name |-> <<"P", "o", "r", "t", "s", " ", "C", "h", "a", "n", "g", "e", "d", "?">>, key |-> Null, value |-> <<"N", "o">>],
          [name |-> <<"A", "c", "t", "u", "a", "l", " ", "P", "o", "r", "t", " ", "2">>, key |-> Null, value |-> <<"C", "o", "z", "u", "m", "e", "l">>],
          [name |-> <<"A", "c", "t", "u", "a", "l", " ", "P", "o", "r", "t", " ", "1">>, key |-> Null, value |-> <<"M", "i", "a", "m", "i">>]>>),
        customAttributes |-> NotArray]>>)]

\* Flag set, but one override port only
OnePortBody ==
    [id |-> 1002,
     line_items |-> Arr(<<
       [properties |-> Arr(<<
          [name |-> <<"C", "r", "u", "i", "s", "e", " ", "L", "i", "n", "e">>, key |-> Null, value |-> <<"R", "o", "y", "a", "l">>],
          [name |-> <<"S", "h", "i", "p">>, key |-> Null, value |-> <<"I", "c", "o", "n">>],
          [name |-> <<"S", "a", "i", "l", " ", "D", "a", "t", "e">>, key |-> Null, value |-> <<"1", "2", "/", "0", "6", "/", "2", "0", "2", "5">>],
          [name |-> <<"M", "y", " ", "P", "o", "r", "t", "s", " ", "o", "f", " ", "C", "a", "l", "l", " ", "C", "h", "a", "n", "g", "e", "d">>, key |-> Null, value |-> <<"Y", "e", "s">>],
          [name |-> <<"A", "c", "t", "u", "a", "l", " ", "P", "o", "r", "t", " ", "1">>, key |-> Null, value |-> <<"M", "i", "a", "m", "i">>]>>),
        customAttributes |-> NotArray]>>)]

\* The flag's value is blank, so the field is not extracted; two override ports
BlankFlagBody ==
    [id |-> 1003,
     line_items |-> Arr(<<
       [properties |-> Arr(<<
          [name |-> <<"P", "o", "r", "t", "s", " ", "C", "h", "a", "n", "g", "e", "d">>, key |-> Null, value |-> <<" ", " ">>],
          [name |-> Null, key |-> Null, value |-> <<"x">>],
          [name |-> <<"A", "c", "t", "u", "a", "l", " ", "P", "o", "r", "t", " ", "1">>, key |-> Null, value |-> <<"M", "i", "a", "m", "i">>]>>),
        customAttributes |-> Arr(<<
          [name |-> Null, key |-> <<"S", "h", "i", "p">>, value |-> <<"i", "c", "o", "n">>],
          [name |-> Null, key |-> <<"S", "a", "i", "l", " ", "D", "a", "t", "e">>, value |-> <<" ", "2", "0", "2", "5", "-", "1", "2", "-", "0", "6">>],
          [name |-> Null, key |-> <<"A", "c", "t", "u", "a", "l", " ", "P", "o", "r", "t", " ", "2">>, value |-> <<"C", "o", "z", "u", "m", "e", "l">>]>>)]>>)]

\* No line items at all
EmptyBody == [id |-> 1004, line_items |-> NotArray]

Bodies == {OverrideBody, OnePortBody}

Envs == {Configured, [token |-> Null, taskId |-> <<"k">>]}

RunRejected == [NoResponse EXCEPT !.rejected = TRUE]
RunDown == [NoResponse EXCEPT !.status = 503, !.text = <<"d", "o", "w", "n">>]
RunBadJson == [NoResponse EXCEPT !.ok = TRUE, !.status = 201]
RunNoDataset == [NoResponse EXCEPT !.ok = TRUE, !.status = 201, !.validJson = TRUE]
RunOk ==
    [NoResponse EXCEPT !.ok = TRUE, !.status = 201, !.validJson = TRUE,
                       !.datasetId = <<"d", "s">>]

RunOutcomes == {RunRejected, RunDown, RunBadJson, RunNoDataset, RunOk}

ItemsRejected == [NoResponse EXCEPT !.rejected = TRUE]
ItemsDenied == [NoResponse EXCEPT !.status = 404, !.text = <<"g", "o", "n", "e">>]
ItemsNotArray == [NoResponse EXCEPT !.ok = TRUE, !.status = 200, !.validJson = TRUE]
ItemsOf(dataset) ==
    [NoResponse EXCEPT !.ok = TRUE, !.status = 200, !.validJson = TRUE,
                       !.items = Arr(dataset)]

V_Dec06 == <<"2", "0", "2", "5", " ", "D", "e", "c", " ", "0", "6">>

\* The sailing asked for
R_Icon ==
    <<[k |-> S_id, v |-> <<"a">>],
      [k |-> S_ship_name, v |-> <<"I", "c", "o", "n">>],
      [k |-> S_cruise_date, v |-> <<"2", "0", "2", "5", " ", "D", "e", "c", " ", "0", "6">>],
      [k |-> K_stop_2, v |-> <<"C", "o", "z", "u", "m", "e", "l">>],
      [k |-> K_stop_1, v |-> <<"D", "e", "p", "a", "r", "t", "i", "n", "g", " ", "f", "r", "o", "m", " ", "M", "i", "a", "m", "i">>]>>

\* The sailing asked for, in other letter case and with blanks around
R_IconLoud ==
    <<[k |-> S_id, v |-> <<"b">>],
      [k |-> S_ship_name, v |-> <<" ", "I", "C", "O", "N", " ">>],
      [k |-> S_cruise_date, v |-> <<" ", "2", "0", "2", "5", " ", "D", "e", "c", " ", "0", "6", " ">>],
      [k |-> K_stop_1, v |-> <<"N", "a", "s", "s", "a", "u">>]>>

\* The ship asked for on another day
R_IconDec07 ==
    <<[k |-> S_id, v |-> <<"c">>],
      [k |-> S_ship_name, v |-> <<"I", "c", "o", "n">>],
      [k |-> S_cruise_date, v |-> <<"2", "0", "2", "5", " ", "D", "e", "c", " ", "0", "7">>],
      [k |-> K_stop_1, v |-> <<"R", "o", "a", "t", "a", "n">>]>>

\* Another ship on the day asked for, without stops
R_Wonder ==
    <<[k |-> S_id, v |-> <<"d">>],
      [k |-> S_ship_name, v |-> <<"W", "o", "n", "d", "e", "r">>],
      [k |-> S_cruise_date, v |-> <<"2", "0", "2", "5", " ", "D", "e", "c", " ", "0", "6">>]>>

\* The sailing asked for, without stops
R_IconNoStops ==
    <<[k |-> S_ship_name, v |-> <<"I", "c", "o", "n">>],
      [k |-> S_cruise_date, v |-> <<"2", "0", "2", "5", " ", "D", "e", "c", " ", "0", "6">>],
      [k |-> S_cruise_title, v |-> <<"x">>]>>

\* A record with neither ship nor date
R_Bare ==
    <<[k |-> K_stop_1, v |-> <<"B", "i", "m", "i", "n", "i">>]>>

Datasets == {<<R_IconDec07, R_Icon>>, <<R_Wonder>>}

ItemsOutcomes ==
    {ItemsRejected, ItemsDenied, ItemsNotArray, ItemsOf(<<>>)}
      \cup {ItemsOf(ds) : ds \in Datasets}

-----------------------------------------------------------------------------
(* The pipeline: MaxDeliveries concurrent deliveries of any body *)

Init ==
    /\ HandlerInit(MaxDeliveries, Envs)
    /\ arg = <<>>
    /\ res = <<>>
    /\ phase = "none"

Next ==
    \E d \in DOMAIN pc :
        \/ Deliver(d, Bodies)
        \/ RunSettles(d, RunOutcomes)
        \/ RunBodyRead(d)
        \/ ItemsSettle(d, ItemsOutcomes)
        \/ ItemsBodyRead(d)

Spec == Init /\ [][Next]_vars

-----------------------------------------------------------------------------
(* The log: MaxLogDeliveries deliveries, more than the log holds.  Every      *)
(* LogScrapeEvery-th of them takes the scrape path, stays suspended while    *)
(* later deliveries are handled, and fails when the service answers.         *)

InitLog ==
    /\ HandlerInit(MaxLogDeliveries, {Configured})
    /\ arg = <<>>
    /\ res = <<>>
    /\ phase = "none"

\* A small order that takes the override path, handled without an await
LogOverrideBody ==
    [id |-> 2001,
     line_items |-> Arr(<<
       [properties |-> Arr(<<
          [name |-> <<"p", "o", "r", "t", "s", " ", "c", "h", "a", "n", "g", "e", "d">>, key |-> Null, value |-> <<"1">>],
          [name |-> <<"a", "c", "t", "u", "a", "l", " ", "p", "o", "r", "t", " ", "1">>, key |-> Null, value |-> <<"A">>],
          [name |-> <<"a", "c", "t", "u", "a", "l", " ", "p", "o", "r", "t", " ", "2">>, key |-> Null, value |-> <<"B">>]>>),
        customAttributes |-> NotArray]>>)]

\* A small order that takes the scrape path
LogScrapeBody ==
    [id |-> 2002,
     line_items |-> Arr(<<
       [properties |-> Arr(<<
          [name |-> <<"s", "h", "i", "p">>, key |-> Null, value |-> <<"S">>]>>),
        customAttributes |-> NotArray]>>)]

LogBodies(d) ==
    IF d % LogScrapeEvery = 1 THEN {LogScrapeBody} ELSE {LogOverrideBody}

NextLog ==
    \E d \in DOMAIN pc :
        \/ Deliver(d, LogBodies(d))
        \/ RunSettles(d, {RunDown})
        \/ RunBodyRead(d)

SpecLog == InitLog /\ [][NextLog]_vars

-----------------------------------------------------------------------------
(* The matcher: one delivery of any body, answered on the scrape path with   *)
(* any dataset of up to MaxItems records                                     *)

RecordPool == {R_Icon, R_IconLoud, R_IconDec07, R_Wonder, R_IconNoStops, R_Bare}

MatchDatasets == SeqsUpTo(RecordPool, MaxItems) \ {<<>>}

MatchBodies == {OverrideBody, OnePortBody, BlankFlagBody, EmptyBody}

InitMatch ==
    /\ HandlerInit(1, {Configured})
    /\ arg = <<>>
    /\ res = <<>>
    /\ phase = "none"

NextMatch ==
    \E d \in DOMAIN pc :
        \/ Deliver(d, MatchBodies)
        \/ RunSettles(d, {RunOk})
        \/ RunBodyRead(d)
        \/ ItemsSettle(d, {ItemsOf(ds) : ds \in MatchDatasets})
        \/ ItemsBodyRead(d)

SpecMatch == InitMatch /\ [][NextMatch]_vars

-----------------------------------------------------------------------------
(* Properties *)

Delivered == {d \in DOMAIN pc : pc[d] # "pending"}

Done == {d \in DOMAIN pc : pc[d] = "done"}

\* The entry delivery d appended, while the log still holds it
HasEntry(d) ==
    /\ Len(logged[d]) = 1
    /\ \E i \in 1..Len(recentWebhookHits) : recentWebhookHits[i].at = logged[d][1]

EntryOf(d) ==
    recentWebhookHits[CHOOSE i \in 1..Len(recentWebhookHits) :
                          recentWebhookHits[i].at = logged[d][1]]

IsFailureEntry(e) == "error" \in DOMAIN e

MissingCredentials(l) ==
    l.raised.text = "Missing APIFY_TOKEN or APIFY_TASK_ID in Render environment variables."

\* C1: a delivery is answered at most once, only ever with status 200 and body
\* "OK", and exactly once when its handler has finished, whether the override
\* path was taken, the scrape succeeded or an error was raised on the scrape path.
C1_AlwaysAnswersOk ==
    \A d \in DOMAIN pc :
        /\ Len(sent[d]) <= 1
        /\ \A i \in 1..Len(sent[d]) : sent[d][i] = [status |-> 200, body |-> "OK"]
        /\ pc[d] = "done" <=> Len(sent[d]) = 1

C1_Witness ==
    \E d \in Done, e \in Done :
        /\ loc[d].result = "error"
        /\ loc[d].raised.text = "Apify run failed:"
        /\ sent[d] = <<[status |-> 200, body |-> "OK"]>>
        /\ loc[e].result = "ok"
        /\ Len(calls[e]) = 2

C3_FailureRecorded ==
    \A d \in Delivered :
        LET l == loc[d]
        IN  /\ pc[d] = "done" => l.result \in {"ok", "error"}
            /\ l.result = "error" =>
                 /\ HasEntry(d)
                 /\ IsFailureEntry(EntryOf(d))
                 /\ EntryOf(d).error = l.raised
                 /\ EntryOf(d).inputs = Inputs(l)
                 /\ EntryOf(d).customization_fields = l.fields
                 /\ "ports" \notin DOMAIN EntryOf(d)
            /\ l.result = "ok" => HasEntry(d) /\ ~IsFailureEntry(EntryOf(d))
            /\ (l.portsChanged /\ Len(l.overridePorts) >= 2) => l.result = "ok"

C3_Witness ==
    \E d \in Done, e \in Done :
        /\ loc[d].raised.text = "Could not extract ports. Chosen keys:"
        /\ IsFailureEntry(EntryOf(d))
        /\ EntryOf(d).error.detail = Join(ObjectKeys(R_Wonder), <<",", " ">>)
        /\ loc[e].raised.text = "Apify returned no items."
        /\ IsFailureEntry(EntryOf(e))

Min(a, b) == IF a < b THEN a ELSE b

\* The log holds the last Min(now, 20) entries appended, the most recent first:
\* stamps now-1, now-2, ..., each appended by one delivery, as a failure entry
\* exactly if that delivery failed
C4_LogContent ==
    /\ Len(recentWebhookHits) = Min(now, LogCapacity)
    /\ \A i \in 1..Len(recentWebhookHits) :
        /\ recentWebhookHits[i].at = now - i
        /\ \E d \in Done :
            /\ logged[d] = <<recentWebhookHits[i].at>>
            /\ IsFailureEntry(recentWebhookHits[i]) <=> loc[d].result = "error"
            /\ recentWebhookHits[i].customization_fields = loc[d].fields
    /\ \A d \in DOMAIN pc :
        /\ Len(logged[d]) <= 1
        /\ pc[d] = "done" <=> Len(logged[d]) = 1

\* A step that changes the log puts one entry at its front and, when the log
\* was full, drops the entry at its back and no other
C4_AppendStep ==
    recentWebhookHits' # recentWebhookHits =>
        \E e \in {recentWebhookHits'[1]} :
            recentWebhookHits' =
                <<e>> \o (IF Len(recentWebhookHits) = LogCapacity
                          THEN SubSeq(recentWebhookHits, 1, LogCapacity - 1)
                          ELSE recentWebhookHits)

\* C4: under any interleaving of the deliveries the log never holds more than 20
\* entries, every delivery appends at most one, and the log is the most recently
\* appended entries, most recent first: an append inserts at the front and
\* evicts only the oldest entry.
C4_BoundedLog == [](C4_LogContent /\ Len(recentWebhookHits) <= 20) /\ [][C4_AppendStep]_vars

\* The log has evicted entries, and holds the entry of an earlier delivery in
\* front of the entry of a later one
C4_Witness ==
    /\ now > LogCapacity
    /\ Len(recentWebhookHits) = LogCapacity
    /\ \E d, e \in Done :
        /\ d < e
        /\ HasEntry(d)
        /\ HasEntry(e)
        /\ logged[d][1] > logged[e][1]
        /\ IsFailureEntry(EntryOf(d))
        /\ ~IsFailureEntry(EntryOf(e))

\* The first record in dataset order that matches ship and date, else the first
C5_Expected(items, l) ==
    LET matching == {i \in 1..Len(items) : IsCandidate(items[i], l.shipName, l.sailDate)}
    IN  IF matching # {}
        THEN items[CHOOSE i \in matching : \A j \in matching : i <= j]
        ELSE items[1]

\* C5: from a non-empty dataset the record chosen is the first whose ship name
\* (trimmed, lowercased) and cruise date (trimmed) equal the targets, else the
\* first record of the dataset; its ports are reported with source
\* "apify_scrape", or the resolution fails listing the record's keys when it
\* has none.
C5_ChosenRecord ==
    \A d \in Done :
        LET l == loc[d]
            items == l.itemsResp.items.elems
            expected == C5_Expected(items, l)
        IN  (l.itemsResp.ok /\ items # <<>>) =>
              /\ l.chosen = expected
              /\ \E ports \in extractPortsFromStops(expected) :
                    IF ports # <<>>
                    THEN /\ l.result = "ok"
                         /\ EntryOf(d).ports.source = "apify_scrape"
                         /\ EntryOf(d).ports.list = ports
                         /\ EntryOf(d).ports.chosenMeta = <<ChosenMeta(expected)>>
                    ELSE /\ l.result = "error"
                         /\ l.raised.text = "Could not extract ports. Chosen keys:"
                         /\ l.raised.detail = Join(ObjectKeys(expected), <<",", " ">>)
                         /\ EntryOf(d).error = l.raised

\* No record matches and the first of two different records is used
C5_Witness ==
    \E d \in Done :
        LET items == loc[d].itemsResp.items.elems
        IN  /\ Len(items) = 2
            /\ items[1] # items[2]
            /\ \A i \in 1..2 : ~IsCandidate(items[i], loc[d].shipName, loc[d].sailDate)
            /\ Truthy(loc[d].shipName)
            /\ loc[d].chosen = items[1]
            /\ loc[d].result = "ok"
            /\ EntryOf(d).ports.source = "apify_scrape"

\* The positions in arg of the fields getActualPorts is to return: the name
\* contains "actual port" in any letter case and the trimmed value is not empty
C6_Selected ==
    SelectSeq([i \in 1..Len(arg) |-> i],
              LAMBDA i : /\ Includes(ToLowerCase(arg[i].name), S_actual_port)
                         /\ Trim(arg[i].value) # <<>>)

C6_HasDigits(i) == \E k \in 1..Len(arg[i].name) : arg[i].name[k] \in Digits

C6_Ordinal(i) == IF C6_HasDigits(i) THEN DigitsValue(FirstDigitRun(arg[i].name)) ELSE 9999

C6_Values(p) == [k \in 1..Len(p) |-> Trim(arg[p[k]].value)]

\* p lists the numbered positions by non-decreasing ordinal, equal ordinals in
\* their original order
C6_NumberedInOrder(p) ==
    \A k, l \in 1..Len(p) :
        (k < l /\ C6_HasDigits(p[k]) /\ C6_HasDigits(p[l])) =>
            \/ C6_Ordinal(p[k]) < C6_Ordinal(p[l])
            \/ C6_Ordinal(p[k]) = C6_Ordinal(p[l]) /\ p[k] < p[l]

\* C6 as claimed: the selected values, the numbered ones by non-decreasing
\* ordinal and stably, and every entry without digits after every numbered one.
C6_UnnumberedAlwaysLast ==
    phase = "out" =>
        \E p \in PermutationsOf(C6_Selected) :
            /\ res = C6_Values(p)
            /\ C6_NumberedInOrder(p)
            /\ \A k, l \in 1..Len(p) :
                 (~C6_HasDigits(p[k]) /\ C6_HasDigits(p[l])) => l < k

\* C6, amended: getActualPorts returns the trimmed non-empty values of the
\* fields whose name contains "actual port", by non-decreasing ordinal with
\* equal ordinals in their original order, where a name without digits counts
\* as ordinal 9999: such an entry comes after every entry numbered below 9999.
C6_SortedByOrdinal ==
    phase = "out" =>
        \E p \in PermutationsOf(C6_Selected) :
            /\ res = C6_Values(p)
            /\ \A k, l \in 1..Len(p) :
                 k < l =>
                    \/ C6_Ordinal(p[k]) < C6_Ordinal(p[l])
                    \/ C6_Ordinal(p[k]) = C6_Ordinal(p[l]) /\ p[k] < p[l]
            /\ \A k, l \in 1..Len(p) :
                 (~C6_HasDigits(p[k]) /\ C6_HasDigits(p[l]) /\ C6_Ordinal(p[l]) < 9999)
                    => l < k

\* Out of order input with a blank value, an unnumbered entry and two entries
\* of ordinal 1
C6_Witness ==
    /\ phase = "out"
    /\ \E i, j, k \in 1..Len(arg) :
         /\ i < j
         /\ j < k
         /\ arg[i] = F_PortNoDigits
         /\ arg[j] = F_Port2
         /\ arg[k] \in {F_Port1, F_port1}
    /\ Len(res) = 3
    /\ res[2] = V_Cozumel
    /\ res[3] = <<"R", "o", "a", "t", "a", "n">>

\* A key of the form stop_<n>_text with <n> a numeric ordinal
C7_Numbered(k) ==
    /\ Len(k) > Len(S_stop_) + Len(S__text)
    /\ StartsWith(k, S_stop_)
    /\ EndsWith(k, S__text)
    /\ AllDigits(SubSeq(k, Len(S_stop_) + 1, Len(k) - Len(S__text)))

C7_N(k) == DigitsValue(SubSeq(k, Len(S_stop_) + 1, Len(k) - Len(S__text)))

C7_Ascending(keys) ==
    \A i, j \in 1..Len(keys) : i < j => C7_N(keys[i]) <= C7_N(keys[j])

\* C7: extractPortsFromStops returns exactly the values of the keys
\* stop_<n>_text with numeric <n>, by ascending <n>, trimmed, the empty ones
\* left out and a leading "Departing from " stripped; no other key contributes.
C7_OnlyNumberedStops ==
    phase = "out" =>
        \E keys \in PermutationsOf(SelectSeq(ObjectKeys(arg), C7_Numbered)) :
            /\ C7_Ascending(keys)
            /\ res = StopTexts(arg, keys)

\* C8: normalizeDateToYyyyMmDd applied to its own result returns that result.
C8_ToIsoIdempotent == phase = "again" => res[2] = res[1]

\* A padded M/D/YYYY date with a month above 12 was rewritten, and rewritten again
C8_Witness ==
    /\ phase = "again"
    /\ arg # Trim(arg)
    /\ MatchMdy(Trim(arg)) # <<>>
    /\ ParseInt(MatchMdy(Trim(arg))[1]) > 12
    /\ res[1] # Trim(arg)
    /\ IsIsoDate(res[1])
    /\ res[2] = res[1]

IsRunCall(c) == c.op = "run"

IsItemsCall(c) == c.op = "items"

\* The calls of a delivery are a submission, then at most one dataset fetch,
\* issued after the submission returned a successful response with a dataset
\* identifier; a delivery that waits has exactly the call it waits for last
C9_CallsInOrder ==
    \A d \in Delivered :
        LET l == loc[d]
        IN  /\ Len(calls[d]) <= 2
            /\ Len(calls[d]) >= 1 => IsRunCall(calls[d][1])
            /\ Len(calls[d]) = 2 =>
                 /\ IsItemsCall(calls[d][2])
                 /\ ~l.runResp.rejected
                 /\ l.runResp.ok
                 /\ Truthy(l.runResp.datasetId)
                 /\ calls[d][2].datasetId = l.runResp.datasetId
            /\ pc[d] \in {"awaitRun", "readRun"} => Len(calls[d]) = 1
            /\ pc[d] \in {"awaitItems", "readItems"} => Len(calls[d]) = 2
            /\ (Truthy(env.token) /\ ~UseOverride(l.portsChanged, l.overridePorts))
                 => /\ Len(calls[d]) >= 1
                    /\ calls[d][1].input.ship_name = l.shipName

\* A step issues at most one call, and none for a delivery that has failed or
\* finished
C9_CallStep ==
    \A d \in DOMAIN pc :
        /\ Len(calls'[d]) <= Len(calls[d]) + 1
        /\ SubSeq(calls'[d], 1, Len(calls[d])) = calls[d]
        /\ pc[d] = "done" => calls'[d] = calls[d]
        /\ (pc'[d] = "done" /\ loc'[d].result = "error") => calls'[d] = calls[d]

\* C9: a delivery on the scrape path issues at most one submission and at most
\* one dataset fetch, the fetch only after the submission returned a successful
\* response with a dataset identifier, and no call once a step has failed; a
\* second delivery of the same order issues a submission of its own.
C9_SequentialNoRetry == []C9_CallsInOrder /\ [][C9_CallStep]_vars

\* Two deliveries of the same order: one failed at the submission, the other
\* went on to the dataset fetch
C9_Witness ==
    \E d, e \in Done :
        /\ d # e
        /\ req[d] = req[e]
        /\ loc[d].raised.text = "Apify run failed:"
        /\ Len(calls[d]) = 1
        /\ Len(calls[e]) = 2
        /\ calls[d][1] = calls[e][1]

C10_FlagName(name) ==
    \/ Includes(ToLowerCase(name), S_ports_of_call_changed)
    \/ Includes(ToLowerCase(name), S_ports_changed)

\* C10: portsChanged is true exactly when an extracted field of the first line
\* item has a name containing "ports of call changed" or "ports changed" in
\* any letter case, whatever its value; extracted fields have a non-blank value.
C10_FlagByNameOnly ==
    \A d \in Delivered :
        LET l == loc[d]
            lineItems == req[d].line_items.elems
            item == IF lineItems # <<>> THEN lineItems[1] ELSE NoLineItem
        IN  /\ l.fields = extractLineItemProperties(item)
            /\ \A i \in 1..Len(l.fields) : Trim(l.fields[i].value) # <<>>
            /\ l.portsChanged <=>
                 \E i \in 1..Len(l.fields) : C10_FlagName(l.fields[i].name)

\* The flag's value is "No": portsChanged is set and the override path taken
C10_Witness ==
    \E d \in Done :
        /\ \E i \in 1..Len(loc[d].fields) :
             /\ C10_FlagName(loc[d].fields[i].name)
             /\ loc[d].fields[i].value = <<"N", "o">>
        /\ loc[d].portsChanged
        /\ EntryOf(d).ports.source = "customer_override"
        /\ calls[d] = <<>>

=============================================================================
